---- MODULE Spec2Model ----
(***************************************************************************)
(* gitree: the unified walker of src/gitree.c (V2) and the staged walker   *)
(* of src/unnamed/part_000 (V1).                                           *)
(*                                                                         *)
(* A C string is the sequence of its characters; the terminating NUL is    *)
(* implicit (At reads it past the end).  A directory listing is what       *)
(* readdir returns for it, "." and ".." left out: a sequence of entries    *)
(* [name, type].  The file system is static during a run: every directory  *)
(* is listed at most once by gitree() and, when it is a git tree, once     *)
(* more by check_gitree(), which reads the same listing.  The listing of a *)
(* directory is drawn when the walker first opens it.                      *)
(***************************************************************************)
EXTENDS Integers, Sequences, FiniteSets

(* ------------------------------ C strings ------------------------------ *)

NUL == "\\0"

Min(a, b) == IF a <= b THEN a ELSE b

At(s, k) == IF k <= Len(s) THEN s[k] ELSE NUL

\* strcmp(a, b) == 0
strcmp_eq(a, b) == a = b

\* strncmp(a, b, n) == 0: the first n characters agree, or both strings end
\* before a difference.
strncmp_eq(a, b, n) ==
  \A k \in 1..Min(n, Min(Len(a), Len(b)) + 1) : At(a, k) = At(b, k)

\* strrchr(s, '/'): the index of the last '/', 0 for NULL.
strrchr_slash(s) ==
  LET S == {k \in 1..Len(s) : s[k] = "/"}
  IN  IF S = {} THEN 0 ELSE CHOOSE k \in S : \A m \in S : m <= k

\* last_dir of check_gitree: the text after the last '/', the whole string
\* when there is none.
last_dir(dirname) == SubSeq(dirname, strrchr_slash(dirname) + 1, Len(dirname))

\* strcpy(subdir, dirname); strcat(subdir, "/"); strcat(subdir, d_name)
path_join(dirname, d_name) == dirname \o <<"/">> \o d_name

\* main: while (argv[1][dir_len] == '/') argv[1][dir_len--] = '\0'
RECURSIVE strip_slashes(_)
strip_slashes(s) ==
  IF Len(s) > 0 /\ s[Len(s)] = "/" THEN strip_slashes(SubSeq(s, 1, Len(s) - 1))
  ELSE s

(* ---------------------------- configuration ---------------------------- *)

SUBDIRNO == 4096
SUBFILENO == 4096

dot_git == <<".","g","i","t">>

git_files ==
  << <<"C","O","M","M","I","T","_","E","D","I","T","M","S","G">>,
     <<"c","o","n","f","i","g">>,
     <<"d","e","s","c","r","i","p","t","i","o","n">>,
     <<"F","E","T","C","H","_","H","E","A","D">>,
     <<"H","E","A","D">>,
     <<"i","n","d","e","x">>,
     <<"p","a","c","k","e","d","-","r","e","f","s">>,
     <<"O","R","I","G","_","H","E","A","D">>,
     <<"M","E","R","G","E","_","H","E","A","D">>,
     <<"M","E","R","G","E","_","M","O","D","E">>,
     <<"M","E","R","G","E","_","M","S","G">>,
     <<"M","E","R","G","E","_","R","R">>,
     <<"R","E","N","A","M","E","D","-","R","E","F">>,
     <<"g","i","t","k",".","c","a","c","h","e">>,
     <<"h","o","o","k","s">>,
     <<"i","n","f","o">>,
     <<"l","o","g","s">>,
     <<"o","b","j","e","c","t","s">>,
     <<"r","e","b","a","s","e","-","a","p","p","l","y">>,
     <<"r","e","f","s">>,
     <<"b","r","a","n","c","h","e","s">>,
     <<"r","e","m","o","t","e","s">>,
     <<"s","h","a","l","l","o","w">>,
     <<"r","r","-","c","a","c","h","e">>,
     <<"c","l","o","n","e","u","r","l">>,
     <<".","r","e","p","o","p","i","c","k","l","e","_","c","o","n","f","i","g">>,
     <<"c","l","o","n","e",".","b","u","n","d","l","e">>,
     <<"c","o","n","f","i","g",".","b","a","k">>,
     <<"c","o","n","f","i","g","_","b","a","k">>,
     <<"c","o","n","f","i","g","~">>,
     <<"d","e","s","c","r","i","p","t","i","o","n","~">>,
     <<"h","o","o","k","s","_","b","k">>,
     <<"h","o","o","k","s",".","b","a","k">>,
     <<"h","o","o","k","s","-","b","a","k">>,
     <<"C","O","M","M","I","T","_","E","D","I","T","M","S","G","~">>,
     <<".","g","i","t","i","g","n","o","r","e">>,
     <<"p","n","t">>,
     <<"s","v","n">>,
     <<"t","e","m","p",".","p","a","t","c","h">> >>

exception_list ==
  << <<"/","g","i","t","/","a","n","d","r","o","i","d","/",".","r","e","p","o">> >>

\* V1's table: the same names without MERGE_RR.
git_files_v1 ==
  SelectSeq(git_files, LAMBDA n : n # <<"M","E","R","G","E","_","R","R">>)

git_tree_nonbare == << <<"m","a","n","i","f","e","s","t","s">>, <<"r","e","p","o">> >>

in_exception_list(dirname) ==
  \E k \in 1..Len(exception_list) :
    strncmp_eq(dirname, exception_list[k], Len(exception_list[k]))

\* the lookup loop of check_gitree: strcmp against every table entry
\* (variant: strncmp over the table entry's length, a prefix match)
in_git_files_prefix(d_name) ==
  \E k \in 1..Len(git_files) : strncmp_eq(d_name, git_files[k], Len(git_files[k]))

in_git_files(d_name) ==
  \E k \in 1..Len(git_files) : strcmp_eq(d_name, git_files[k])

\* dir_name_with_git of check_gitree
dir_name_with_git(dirname) ==
  LET ld == last_dir(dirname)
      dir_len == Len(ld)
  IN  dir_len >= 4 /\ strncmp_eq(SubSeq(ld, dir_len - 3, dir_len), dot_git, 4)

(* ----------------------------- file system ----------------------------- *)

n_objects == <<"o","b","j","e","c","t","s">>
n_refs == <<"r","e","f","s">>
n_HEAD == <<"H","E","A","D">>
n_a_git == <<"a",".","g","i","t">>
n_README == <<"R","E","A","D","M","E",".","m","d">>
n_junk == <<"j","u","n","k",".","b","i","n">>
n_lnk == <<"l","n","k">>
n_refs_old == <<"r","e","f","s",".","o","l","d">>
n_config == <<"c","o","n","f","i","g">>
n_work == <<"w","o","r","k">>
n_unk == <<"u","n","k">>
n_git == <<"g","i","t">>

p_x_work == <<"/","x","/","w","o","r","k">>
p_repo == <<"/","g","i","t","/","a","n","d","r","o","i","d","/",".","r","e","p","o">>
p_w == <<"w","/">>
p_x_repo == <<"/","x","/","r","e","p","o">>

E(name, type) == [name |-> name, type |-> type]

\* The listings a directory of the walked tree may have.
SmallShapes ==
  << <<>>,
     << E(n_objects, "DT_DIR"), E(n_refs, "DT_DIR"), E(n_HEAD, "DT_REG") >>,
     << E(n_objects, "DT_DIR"), E(n_refs, "DT_DIR") >>,
     << E(n_HEAD, "DT_REG"), E(n_junk, "DT_REG"), E(n_objects, "DT_DIR"),
        E(n_lnk, "DT_LNK"), E(n_refs, "DT_DIR"), E(n_refs_old, "DT_DIR"),
        E(n_config, "DT_REG") >>,
     << E(dot_git, "DT_DIR") >>,
     << E(n_README, "DT_REG"), E(dot_git, "DT_DIR") >>,
     << E(n_a_git, "DT_DIR"), E(n_junk, "DT_REG") >>,
     << E(n_README, "DT_REG"), E(n_unk, "DT_UNKNOWN"), E(n_work, "DT_DIR") >>,
     << E(n_work, "DT_DIR"), E(n_lnk, "DT_LNK"), E(n_git, "DT_DIR") >>,
     << E(n_objects, "DT_REG"), E(n_refs, "DT_DIR"), E(n_HEAD, "DT_REG") >> >>

Digit == <<"0","1","2","3","4","5","6","7","8","9">>

\* the name of the k-th entry of a large directory: a letter and four digits
big_name(c, k) ==
  << c, Digit[((k \div 1000) % 10) + 1], Digit[((k \div 100) % 10) + 1],
     Digit[((k \div 10) % 10) + 1], Digit[(k % 10) + 1] >>

\* Large directories, at the capacity of subdir[] and subfile[]:
\*   1: SUBDIRNO subdirectories;  2: SUBFILENO regular files;
\*   3: SUBFILENO - 1 regular files, one symbolic link and two subdirectories.
BigShapes ==
  << [k \in 1..SUBDIRNO |-> E(big_name("d", k), "DT_DIR")],
     [k \in 1..SUBFILENO |-> E(big_name("f", k), "DT_REG")],
     [k \in 1..(SUBFILENO + 2) |->
        IF k < SUBFILENO THEN E(big_name("f", k), "DT_REG")
        ELSE IF k = SUBFILENO THEN E(n_lnk, "DT_LNK")
        ELSE IF k = SUBFILENO + 1 THEN E(n_work, "DT_DIR")
        ELSE E(n_a_git, "DT_DIR")] >>

NSmall == Len(SmallShapes)

\* Shape 0 is a directory opendir cannot open.
Listing(s) ==
  IF s = 0 THEN <<>>
  ELSE IF s <= NSmall THEN SmallShapes[s]
  ELSE BigShapes[s - NSmall]

\* At most MaxDirs directories of a walked tree are non-empty.
MaxDirs == 3

Args == {p_x_work, p_repo, p_w}
ArgsV1 == {p_x_work, p_x_repo}

(* -------------------------------- state -------------------------------- *)

VARIABLES
  pc,            \* where main is: "main", "walk", "summary", "exited"
  pathname,         \* the path given on the command line
  stack,         \* the active calls of gitree(), innermost last
  handles,       \* the DIR handles opened and not closed, by directory
  out,           \* the lines printed so far, stdout and stderr, in order
  exit_status,   \* the status the process ended with, once pc = "exited"
  sum_break_layout_rule, sum_dir_name_not_with_git, sum_non_bare_git,
  sum_not_in_git,
  stage, sum, sum2,                 \* V1: the mode and its two counters
  dirs_left,     \* non-empty directories the tree may still show
  visited,       \* the directories whose listing was read to the end
  gitree_calls,  \* the arguments of the calls of gitree(), in order
  check_calls    \* the arguments of the calls of check_gitree(), in order

v2sums == <<sum_break_layout_rule, sum_dir_name_not_with_git, sum_non_bare_git,
            sum_not_in_git>>
v1vars == <<stage, sum, sum2>>
vars == <<pc, pathname, stack, handles, out, exit_status, v2sums, v1vars,
          dirs_left, visited, gitree_calls, check_calls>>

Line(kind, path) == [kind |-> kind, path |-> path]

Top == stack[Len(stack)]
SetTop(f) == [stack EXCEPT ![Len(stack)] = f]

\* exit(code): the status is the low byte of the code
exit_code(code) == code % 256

(* --------------------------- gitree.c: gitree -------------------------- *)

\* a call gitree(dirname): the locals at entry
\* (variant: V1's shortcut, a name ending in ".git" goes straight to
\* check_gitree)
gitree_call_direct(dirname) ==
  [dirname |-> dirname, at |-> IF dir_name_with_git(dirname) /\ Len(last_dir(dirname)) > 4
                               THEN "check_gitree" ELSE "opendir",
   shape |-> 0, pos |-> 0, subdir |-> <<>>, subfile |-> <<>>,
   has_dir_objects |-> FALSE, has_dir_refs |-> FALSE, has_file_HEAD |-> FALSE,
   i |-> 0]

gitree_call(dirname) ==
  [dirname |-> dirname, at |-> "opendir", shape |-> 0, pos |-> 0,
   subdir |-> <<>>, subfile |-> <<>>,
   has_dir_objects |-> FALSE, has_dir_refs |-> FALSE, has_file_HEAD |-> FALSE,
   i |-> 0]

\* the branch of the readdir loop an entry takes
\* (variant: an indeterminate type is skipped like any other type)
entry_class_lenient(e) ==
  CASE e.type = "DT_DIR" -> "dir"
    [] e.type = "DT_REG" -> "file"
    [] OTHER -> "skip"

entry_class(e) ==
  CASE e.type = "DT_DIR" -> "dir"
    [] e.type = "DT_REG" -> "file"
    [] e.type = "DT_UNKNOWN" -> "unknown"
    [] OTHER -> "skip"

\* if (i >= SUBDIRNO), if (j >= SUBFILENO)
\* (variant: > for >=)
reach_max_late(n, cap) == n > cap

reach_max(n, cap) == n >= cap

\* closedir(dirp)
\* (variant: the handle is left open)
closedir_leak(hs, dirname) == hs

closedir(hs, dirname) == SelectSeq(hs, LAMBDA d : d # dirname)

\* if (has_dir_objects && has_dir_refs && has_file_HEAD)
\* (variants: the test negated; the test of V1, without HEAD)
is_git_tree_swapped(f) == ~(f.has_dir_objects /\ f.has_dir_refs /\ f.has_file_HEAD)

is_git_tree_no_head(f) == f.has_dir_objects /\ f.has_dir_refs

is_git_tree(f) == f.has_dir_objects /\ f.has_dir_refs /\ f.has_file_HEAD

\* the loop over subfile[] of a directory that is no git tree
\* (variant: the exception list is not consulted)
stray_lines_always(f) ==
  [j \in 1..Len(f.subfile) |-> Line("stray", path_join(f.dirname, f.subfile[j]))]

stray_lines(f) ==
  IF in_exception_list(f.dirname) THEN <<>>
  ELSE [j \in 1..Len(f.subfile) |->
          Line("stray", path_join(f.dirname, f.subfile[j]))]

\* the listings opendir may find for the directory of the innermost call
OpenChoices ==
  {0, 1}
  \cup (IF dirs_left > 0 THEN 2..NSmall ELSE {})
  \cup (IF Len(stack) = 1 /\ dirs_left = MaxDirs /\ Top.dirname = p_x_work
        THEN (NSmall + 1)..(NSmall + Len(BigShapes)) ELSE {})

NoExit == UNCHANGED <<pc, exit_status>>
Exit(code) == pc' = "exited" /\ exit_status' = exit_code(code)

Init ==
  /\ pc = "main"
  /\ pathname \in Args
  /\ stack = <<>>
  /\ handles = <<>>
  /\ out = <<>>
  /\ exit_status = 0
  /\ sum_break_layout_rule = 0 /\ sum_dir_name_not_with_git = 0
  /\ sum_non_bare_git = 0 /\ sum_not_in_git = 0
  /\ stage = 0 /\ sum = 0 /\ sum2 = 0
  /\ dirs_left = MaxDirs
  /\ visited = <<>>
  /\ gitree_calls = <<>>
  /\ check_calls = <<>>

\* main up to the call of gitree
Main ==
  /\ pc = "main"
  /\ pc' = "walk"
  /\ stack' = <<gitree_call(strip_slashes(pathname))>>
  /\ gitree_calls' = <<strip_slashes(pathname)>>
  /\ UNCHANGED <<pathname, handles, out, exit_status, v2sums, v1vars, dirs_left,
                 visited, check_calls>>

\* opendir and the "Checking" line
GitreeOpendir ==
  /\ pc = "walk" /\ stack # <<>> /\ Top.at = "opendir"
  /\ \E s \in OpenChoices :
       IF s = 0
       THEN /\ out' = Append(out, Line("err_opendir", Top.dirname))
            /\ Exit(-1)
            /\ UNCHANGED <<stack, handles, dirs_left>>
       ELSE /\ handles' = Append(handles, Top.dirname)
            /\ out' = Append(out, Line("checking", Top.dirname))
            /\ stack' = SetTop([Top EXCEPT !.shape = s, !.at = "readdir"])
            /\ dirs_left' = IF s = 1 THEN dirs_left
                            ELSE IF s > NSmall THEN 0 ELSE dirs_left - 1
            /\ NoExit
  /\ UNCHANGED <<pathname, v2sums, v1vars, visited, gitree_calls, check_calls>>

\* one turn of the readdir loop
GitreeReaddir ==
  /\ pc = "walk" /\ stack # <<>> /\ Top.at = "readdir"
  /\ Top.pos < Len(Listing(Top.shape))
  /\ LET f == Top
         e == Listing(f.shape)[f.pos + 1]
         cls == entry_class(e)
         fd == [f EXCEPT !.pos = @ + 1,
                         !.has_dir_objects = @ \/ strcmp_eq(e.name, n_objects),
                         !.has_dir_refs = @ \/ strcmp_eq(e.name, n_refs),
                         !.subdir = Append(@, path_join(f.dirname, e.name))]
         ff == [f EXCEPT !.pos = @ + 1,
                         !.has_file_HEAD = @ \/ strcmp_eq(e.name, n_HEAD),
                         !.subfile = Append(@, e.name)]
     IN  CASE cls = "dir" ->
                /\ stack' = SetTop(fd)
                /\ IF reach_max(Len(fd.subdir), SUBDIRNO)
                   THEN out' = Append(out, Line("err_max_dir", f.dirname)) /\ Exit(-1)
                   ELSE out' = out /\ NoExit
           [] cls = "file" ->
                /\ stack' = SetTop(ff)
                /\ IF reach_max(Len(ff.subfile), SUBFILENO)
                   THEN out' = Append(out, Line("err_max_file", f.dirname)) /\ Exit(-1)
                   ELSE out' = out /\ NoExit
           [] cls = "unknown" ->
                /\ out' = Append(out, Line("err_unknown", f.dirname))
                /\ Exit(-2)
                /\ UNCHANGED stack
           [] OTHER ->
                /\ stack' = SetTop([f EXCEPT !.pos = @ + 1])
                /\ out' = out /\ NoExit
  /\ UNCHANGED <<pathname, handles, v2sums, v1vars, dirs_left, visited,
                 gitree_calls, check_calls>>

\* readdir returns NULL: closedir
GitreeClosedir ==
  /\ pc = "walk" /\ stack # <<>> /\ Top.at = "readdir"
  /\ Top.pos = Len(Listing(Top.shape))
  /\ handles' = closedir(handles, Top.dirname)
  /\ stack' = SetTop([Top EXCEPT !.at = "classify"])
  /\ UNCHANGED <<pc, pathname, out, exit_status, v2sums, v1vars, dirs_left,
                 visited, gitree_calls, check_calls>>

\* a git tree: free the children and call check_gitree
GitreeIsTree ==
  /\ pc = "walk" /\ stack # <<>> /\ Top.at = "classify"
  /\ is_git_tree(Top)
  /\ visited' = Append(visited,
                  [dirname |-> Top.dirname, shape |-> Top.shape, root |-> TRUE])
  /\ stack' = SetTop([Top EXCEPT !.at = "check_gitree", !.subdir = <<>>,
                                 !.subfile = <<>>])
  /\ UNCHANGED <<pc, pathname, handles, out, exit_status, v2sums, v1vars,
                 dirs_left, gitree_calls, check_calls>>

\* no git tree: report its regular files
GitreeNotTree ==
  /\ pc = "walk" /\ stack # <<>> /\ Top.at = "classify"
  /\ ~is_git_tree(Top)
  /\ visited' = Append(visited,
                  [dirname |-> Top.dirname, shape |-> Top.shape, root |-> FALSE])
  /\ out' = out \o stray_lines(Top)
  /\ sum_not_in_git' = sum_not_in_git + Len(stray_lines(Top))
  /\ stack' = SetTop([Top EXCEPT !.at = "subdirs", !.subfile = <<>>, !.i = 0])
  /\ UNCHANGED <<pc, pathname, handles, exit_status, sum_break_layout_rule,
                 sum_dir_name_not_with_git, sum_non_bare_git, v1vars,
                 dirs_left, gitree_calls, check_calls>>

\* gitree(subdir[i])
GitreeRecurse ==
  /\ pc = "walk" /\ stack # <<>> /\ Top.at = "subdirs"
  /\ Top.i < Len(Top.subdir)
  /\ LET callee == gitree_call(Top.subdir[Top.i + 1])
     IN  /\ stack' = Append(stack, callee)
         /\ gitree_calls' = IF callee.at = "opendir"
                            THEN Append(gitree_calls, callee.dirname)
                            ELSE gitree_calls
  /\ UNCHANGED <<pc, pathname, handles, out, exit_status, v2sums, v1vars,
                 dirs_left, visited, check_calls>>

\* return from the innermost call: the caller frees subdir[i] and goes on,
\* main goes on to the summary
Return ==
  IF Len(stack) = 1
  THEN stack' = <<>> /\ pc' = "summary"
  ELSE /\ stack' = [SubSeq(stack, 1, Len(stack) - 1)
                      EXCEPT ![Len(stack) - 1].i = @ + 1]
       /\ pc' = pc

GitreeReturn ==
  /\ pc = "walk" /\ stack # <<>> /\ Top.at = "subdirs"
  /\ Top.i = Len(Top.subdir)
  /\ Return
  /\ UNCHANGED <<pathname, handles, out, exit_status, v2sums, v1vars, dirs_left,
                 visited, gitree_calls, check_calls>>

(* ------------------------ gitree.c: check_gitree ----------------------- *)

\* the two warnings about the name of a git tree
\* (variant: V1's bad-name warning, printed for every git tree)
naming_lines_always_badname(dirname) ==
  LET dir_len == Len(last_dir(dirname))
      with_git == dir_name_with_git(dirname)
  IN  (IF with_git /\ dir_len = 4 /\ ~in_exception_list(dirname)
       THEN <<Line("nonbare", dirname)>> ELSE <<>>)
      \o <<Line("badname", dirname)>>

naming_lines(dirname) ==
  LET dir_len == Len(last_dir(dirname))
      with_git == dir_name_with_git(dirname)
  IN  (IF with_git /\ dir_len = 4 /\ ~in_exception_list(dirname)
       THEN <<Line("nonbare", dirname)>> ELSE <<>>)
      \o (IF ~with_git THEN <<Line("badname", dirname)>> ELSE <<>>)

CountKind(lines, kind) == Len(SelectSeq(lines, LAMBDA l : l.kind = kind))

\* check_gitree up to its opendir
CheckGitreeOpen ==
  /\ pc = "walk" /\ stack # <<>> /\ Top.at = "check_gitree"
  /\ check_calls' = Append(check_calls, Top.dirname)
  /\ sum_non_bare_git' =
       sum_non_bare_git + CountKind(naming_lines(Top.dirname), "nonbare")
  /\ sum_dir_name_not_with_git' =
       sum_dir_name_not_with_git + CountKind(naming_lines(Top.dirname), "badname")
  /\ IF Top.shape = 0
     THEN /\ out' = out \o naming_lines(Top.dirname)
                        \o <<Line("err_check_opendir", Top.dirname)>>
          /\ Exit(-1)
          /\ UNCHANGED <<stack, handles>>
     ELSE /\ out' = out \o naming_lines(Top.dirname)
          /\ handles' = Append(handles, Top.dirname)
          /\ stack' = SetTop([Top EXCEPT !.at = "check_readdir", !.pos = 0])
          /\ NoExit
  /\ UNCHANGED <<pathname, sum_break_layout_rule, sum_not_in_git, v1vars,
                 dirs_left, visited, gitree_calls>>

\* one turn of the readdir loop of check_gitree
CheckGitreeReaddir ==
  /\ pc = "walk" /\ stack # <<>> /\ Top.at = "check_readdir"
  /\ Top.pos < Len(Listing(Top.shape))
  /\ LET e == Listing(Top.shape)[Top.pos + 1]
     IN  IF in_git_files(e.name)
         THEN UNCHANGED <<out, sum_break_layout_rule>>
         ELSE /\ sum_break_layout_rule' = sum_break_layout_rule + 1
              /\ out' = Append(out, Line("layout", path_join(Top.dirname, e.name)))
  /\ stack' = SetTop([Top EXCEPT !.pos = @ + 1])
  /\ UNCHANGED <<pc, pathname, handles, exit_status, sum_dir_name_not_with_git,
                 sum_non_bare_git, sum_not_in_git, v1vars, dirs_left, visited,
                 gitree_calls, check_calls>>

\* readdir returns NULL: closedir, check_gitree returns and so does gitree
CheckGitreeClosedir ==
  /\ pc = "walk" /\ stack # <<>> /\ Top.at = "check_readdir"
  /\ Top.pos = Len(Listing(Top.shape))
  /\ handles' = closedir(handles, Top.dirname)
  /\ Return
  /\ UNCHANGED <<pathname, out, exit_status, v2sums, v1vars, dirs_left, visited,
                 gitree_calls, check_calls>>

(* ----------------------------- gitree.c: main -------------------------- *)

\* the summary and return 0
MainSummary ==
  /\ pc = "summary"
  /\ out' = Append(out, [kind |-> "summary", path |-> <<>>,
                         counts |-> <<sum_break_layout_rule,
                                      sum_dir_name_not_with_git,
                                      sum_non_bare_git, sum_not_in_git>>])
  /\ Exit(0)
  /\ UNCHANGED <<pathname, stack, handles, v2sums, v1vars, dirs_left, visited,
                 gitree_calls, check_calls>>

Next ==
  \/ Main
  \/ GitreeOpendir
  \/ GitreeReaddir
  \/ GitreeClosedir
  \/ GitreeIsTree
  \/ GitreeNotTree
  \/ GitreeRecurse
  \/ GitreeReturn
  \/ CheckGitreeOpen
  \/ CheckGitreeReaddir
  \/ CheckGitreeClosedir
  \/ MainSummary

Spec == Init /\ [][Next]_vars

(* ------------------- part_000 (V1): the staged walker ------------------ *)

in_git_files_v1(d_name) ==
  \E k \in 1..Len(git_files_v1) : strcmp_eq(d_name, git_files_v1[k])

\* in_nonbare_exp_list: strcmp of the last component against the table
in_nonbare_exp_list(dirname) ==
  \E k \in 1..Len(git_tree_nonbare) :
    strcmp_eq(last_dir(dirname), git_tree_nonbare[k])

\* !strncmp(d_name + subdir_len - 4, ".git", 4).  For a name shorter than
\* four characters the comparison starts before d_name: what it reads
\* there is not defined, and only a name that is itself the end of ".git"
\* can then compare equal.
git_flag_outcomes(d_name) ==
  IF Len(d_name) >= 4
  THEN {strncmp_eq(SubSeq(d_name, Len(d_name) - 3, Len(d_name)), dot_git, 4)}
  ELSE IF d_name = SubSeq(dot_git, 5 - Len(d_name), 4) THEN BOOLEAN
  ELSE {FALSE}

\* check_gitree of V1 on a directory with listing l
check_gitree_v1_lines(dirname, l) ==
  LET bad == SelectSeq(l, LAMBDA e : ~in_git_files_v1(e.name))
  IN  <<Line("checking", dirname)>>
      \o [k \in 1..Len(bad) |-> Line("layout", bad[k].name)]

gitree_call_v1(dirname) ==
  [dirname |-> dirname, at |-> "opendir", shape |-> 0, pos |-> 0,
   subdir |-> <<>>, git |-> <<>>, git_bare |-> <<>>,
   has_dir_objects |-> FALSE, has_dir_refs |-> FALSE,
   skip_subtree_check |-> FALSE, i |-> 0]

OpenChoicesV1 == {0, 1} \cup (IF dirs_left > 0 THEN 2..NSmall ELSE {})

InitV1 ==
  /\ pc = "main"
  /\ pathname \in ArgsV1
  /\ stage \in {1, 2, 3}
  /\ stack = <<>>
  /\ handles = <<>>
  /\ out = <<>>
  /\ exit_status = 0
  /\ sum_break_layout_rule = 0 /\ sum_dir_name_not_with_git = 0
  /\ sum_non_bare_git = 0 /\ sum_not_in_git = 0
  /\ sum = 0 /\ sum2 = 0
  /\ dirs_left = MaxDirs
  /\ visited = <<>>
  /\ gitree_calls = <<>>
  /\ check_calls = <<>>

V1Main ==
  /\ pc = "main"
  /\ pc' = "walk"
  /\ stack' = <<gitree_call_v1(pathname)>>
  /\ gitree_calls' = <<pathname>>
  /\ UNCHANGED <<pathname, handles, out, exit_status, v2sums, v1vars,
                 dirs_left, visited, check_calls>>

V1Opendir ==
  /\ pc = "walk" /\ stack # <<>> /\ Top.at = "opendir"
  /\ \E s \in OpenChoicesV1 :
       IF s = 0
       THEN /\ out' = Append(out, Line("err_opendir", Top.dirname))
            /\ Exit(-1)
            /\ UNCHANGED <<stack, handles, dirs_left>>
       ELSE /\ handles' = Append(handles, Top.dirname)
            /\ out' = out
            /\ stack' = SetTop([Top EXCEPT !.shape = s, !.at = "readdir"])
            /\ dirs_left' = IF s = 1 THEN dirs_left ELSE dirs_left - 1
            /\ NoExit
  /\ UNCHANGED <<pathname, v2sums, v1vars, visited, gitree_calls, check_calls>>

\* one turn of the readdir loop; in mode -3 a regular file is printed here
V1Readdir ==
  /\ pc = "walk" /\ stack # <<>> /\ Top.at = "readdir"
  /\ Top.pos < Len(Listing(Top.shape))
  /\ LET f == Top
         e == Listing(f.shape)[f.pos + 1]
     IN  CASE e.type = "DT_DIR" ->
                \E g \in git_flag_outcomes(e.name) :
                  LET fd == [f EXCEPT
                               !.pos = @ + 1,
                               !.subdir = Append(@, path_join(f.dirname, e.name)),
                               !.git = Append(@, g),
                               !.git_bare = Append(@, g /\ Len(e.name) # 4),
                               !.has_dir_objects = @ \/ strcmp_eq(e.name, n_objects),
                               !.has_dir_refs = @ \/ strcmp_eq(e.name, n_refs)]
                  IN  /\ stack' = SetTop(fd)
                      /\ IF reach_max(Len(fd.subdir), SUBDIRNO)
                         THEN /\ out' = Append(out, Line("err_max_dir", f.dirname))
                              /\ Exit(-1)
                         ELSE out' = out /\ NoExit
           [] e.type = "DT_REG" ->
                /\ out' = IF stage = 3 /\ ~in_nonbare_exp_list(f.dirname)
                          THEN Append(out, Line("file", path_join(f.dirname, e.name)))
                          ELSE out
                /\ stack' = SetTop([f EXCEPT !.pos = @ + 1])
                /\ NoExit
           [] e.type = "DT_UNKNOWN" ->
                /\ out' = Append(out, Line("err_unknown", f.dirname))
                /\ Exit(-2)
                /\ UNCHANGED stack
           [] OTHER ->
                /\ stack' = SetTop([f EXCEPT !.pos = @ + 1])
                /\ out' = out /\ NoExit
  /\ UNCHANGED <<pathname, handles, v2sums, v1vars, dirs_left, visited,
                 gitree_calls, check_calls>>

\* closedir, then the check of the directory itself when it holds objects
\* and refs
V1Closedir ==
  /\ pc = "walk" /\ stack # <<>> /\ Top.at = "readdir"
  /\ Top.pos = Len(Listing(Top.shape))
  /\ LET f == Top
         tree == f.has_dir_objects /\ f.has_dir_refs
         checked == tree /\ stage = 1
         lines == check_gitree_v1_lines(f.dirname, Listing(f.shape))
     IN  /\ handles' = closedir(handles, f.dirname)
         /\ visited' = Append(visited,
                         [dirname |-> f.dirname, shape |-> f.shape, root |-> tree])
         /\ check_calls' = IF tree THEN Append(check_calls, f.dirname)
                           ELSE check_calls
         /\ out' = IF checked
                   THEN out \o lines \o <<Line("badname", f.dirname)>>
                   ELSE out
         /\ sum' = IF checked THEN sum + CountKind(lines, "layout") ELSE sum
         /\ sum2' = IF checked THEN sum2 + 1 ELSE sum2
         /\ stack' = SetTop([f EXCEPT !.at = "subdirs", !.i = 0,
                                      !.skip_subtree_check = tree])
  /\ UNCHANGED <<pc, pathname, exit_status, v2sums, stage, dirs_left,
                 gitree_calls>>

\* one turn of the loop over subdir[]
V1Subdir ==
  /\ pc = "walk" /\ stack # <<>> /\ Top.at = "subdirs"
  /\ Top.i < Len(Top.subdir)
  /\ LET f == Top
         k == f.i + 1
         skip == [f EXCEPT !.i = @ + 1]
     IN  IF f.skip_subtree_check
         THEN /\ stack' = SetTop(skip)
              /\ UNCHANGED <<pc, exit_status, out, sum, handles, dirs_left,
                             gitree_calls, check_calls>>
         ELSE IF f.git[k]
         THEN \* check_gitree(subdir[i]), check_gitree_nonbare(dirname)
              /\ check_calls' = Append(check_calls, f.subdir[k])
              /\ gitree_calls' = gitree_calls
              /\ handles' = handles
              /\ LET nonbare == IF ~f.git_bare[k] /\ stage = 2
                                   /\ ~in_nonbare_exp_list(f.dirname)
                                THEN <<Line("nonbare_dir", f.dirname)>> ELSE <<>>
                 IN  IF stage # 1
                     THEN /\ out' = out \o nonbare
                          /\ stack' = SetTop(skip)
                          /\ UNCHANGED <<pc, exit_status, sum, dirs_left>>
                     ELSE \E s \in OpenChoicesV1 :
                            IF s = 0
                            THEN /\ out' = out \o <<Line("checking", f.subdir[k]),
                                                   Line("err_check_opendir", f.subdir[k])>>
                                 /\ Exit(-1)
                                 /\ UNCHANGED <<stack, sum, dirs_left>>
                            ELSE /\ out' = out \o check_gitree_v1_lines(f.subdir[k], Listing(s))
                                 /\ sum' = sum + CountKind(
                                             check_gitree_v1_lines(f.subdir[k], Listing(s)),
                                             "layout")
                                 /\ dirs_left' = IF s = 1 THEN dirs_left
                                                 ELSE dirs_left - 1
                                 /\ stack' = SetTop(skip)
                                 /\ NoExit
         ELSE IF stage # 3 \/ ~in_nonbare_exp_list(f.dirname)
         THEN /\ stack' = Append(stack, gitree_call_v1(f.subdir[k]))
              /\ gitree_calls' = Append(gitree_calls, f.subdir[k])
              /\ UNCHANGED <<pc, exit_status, out, sum, handles, dirs_left,
                             check_calls>>
         ELSE /\ stack' = SetTop(skip)
              /\ UNCHANGED <<pc, exit_status, out, sum, handles, dirs_left,
                             gitree_calls, check_calls>>
  /\ UNCHANGED <<pathname, v2sums, stage, sum2, visited>>

V1Return ==
  /\ pc = "walk" /\ stack # <<>> /\ Top.at = "subdirs"
  /\ Top.i = Len(Top.subdir)
  /\ Return
  /\ UNCHANGED <<pathname, handles, out, exit_status, v2sums, v1vars,
                 dirs_left, visited, gitree_calls, check_calls>>

V1Summary ==
  /\ pc = "summary"
  /\ out' = IF stage = 1
            THEN Append(out, [kind |-> "summary", path |-> <<>>,
                              counts |-> <<sum, sum2>>])
            ELSE out
  /\ Exit(0)
  /\ UNCHANGED <<pathname, stack, handles, v2sums, v1vars, dirs_left, visited,
                 gitree_calls, check_calls>>

NextV1 ==
  \/ V1Main
  \/ V1Opendir
  \/ V1Readdir
  \/ V1Closedir
  \/ V1Subdir
  \/ V1Return
  \/ V1Summary

SpecV1 == InitV1 /\ [][NextV1]_vars

(* ------------------------------ properties ----------------------------- *)

Last(s) == s[Len(s)]

Completed == pc = "exited" /\ exit_status = 0

\* p lies beneath directory d, at any depth
Beneath(p, d) ==
  Len(p) > Len(d) + 1 /\ SubSeq(p, 1, Len(d) + 1) = d \o <<"/">>

ParentOf(p) == SubSeq(p, 1, strrchr_slash(p) - 1)

HasEntry(l, name, type) ==
  \E k \in 1..Len(l) : l[k].name = name /\ l[k].type = type

HasMarkers(l) == HasEntry(l, n_objects, "DT_DIR") /\ HasEntry(l, n_refs, "DT_DIR")

HasSignature(l) == HasMarkers(l) /\ HasEntry(l, n_HEAD, "DT_REG")

ProperGitName(name) ==
  Len(name) > 4 /\ SubSeq(name, Len(name) - 3, Len(name)) = dot_git

Exempted(dirname) ==
  Len(dirname) >= Len(p_repo) /\ SubSeq(dirname, 1, Len(p_repo)) = p_repo

GitFileSet == {git_files[k] : k \in 1..Len(git_files)}

Called(calls, dirname) == \E k \in 1..Len(calls) : calls[k] = dirname

TimesCalled(calls, dirname) == Cardinality({k \in 1..Len(calls) : calls[k] = dirname})

\* the lines of one kind printed for the immediate children of dirname
LinesFor(kind, dirname) ==
  SelectSeq(out, LAMBDA l : l.kind = kind /\ l.path # <<>>
                            /\ ParentOf(l.path) = dirname)

\* the lines of one kind printed about dirname itself
LinesAbout(kind, dirname) ==
  SelectSeq(out, LAMBDA l : l.kind = kind /\ l.path = dirname)

OfType(l, type) == SelectSeq(l, LAMBDA e : e.type = type)

\* check_gitree is running, or about to run, on dirname
CheckPending(dirname) ==
  /\ stack # <<>> /\ Top.dirname = dirname
  /\ Top.at \in {"check_gitree", "check_readdir"}

FatalKinds == {"err_opendir", "err_check_opendir", "err_max_dir",
               "err_max_file", "err_unknown"}

(* C1 as written: a visited directory that holds the directories objects   *)
(* and refs is classified as a git tree, check_gitree runs on it and       *)
(* gitree() is never called on anything beneath it, with or without a      *)
(* regular file HEAD.                                                      *)
C1_MarkersAloneMakeRoot ==
  \A k \in 1..Len(visited) :
    HasMarkers(Listing(visited[k].shape)) =>
      /\ visited[k].root
      /\ Called(check_calls, visited[k].dirname) \/ CheckPending(visited[k].dirname)
      /\ \A c \in 1..Len(gitree_calls) : ~Beneath(gitree_calls[c], visited[k].dirname)

(* C1 amended: a visited directory that holds the directories objects and  *)
(* refs and the regular file HEAD is classified as a git tree,             *)
(* check_gitree runs on it and gitree() is never called on anything        *)
(* beneath it, whatever its other children are.                            *)
C1_SignatureMakesRoot ==
  \A k \in 1..Len(visited) :
    HasSignature(Listing(visited[k].shape)) =>
      /\ visited[k].root
      /\ Called(check_calls, visited[k].dirname) \/ CheckPending(visited[k].dirname)
      /\ \A c \in 1..Len(gitree_calls) : ~Beneath(gitree_calls[c], visited[k].dirname)

C1_Witness ==
  /\ Completed
  /\ \E k \in 1..Len(visited) :
       /\ HasSignature(Listing(visited[k].shape))
       /\ HasEntry(Listing(visited[k].shape), n_refs_old, "DT_DIR")
       /\ visited[k].root
       /\ Called(check_calls, visited[k].dirname)

(* C2 as written: every directory check_gitree has judged got exactly one  *)
(* of three outcomes: named ".git", one non-bare warning unless its path   *)
(* is exempted; not ending in ".git", one bad-name warning unless its path *)
(* is exempted; ending in ".git" and longer, neither warning.              *)
C2_ExemptionCoversBothWarnings ==
  \A k \in 1..Len(check_calls) :
    LET d == check_calls[k]
        base == last_dir(d)
        nonbare == Len(LinesAbout("nonbare", d))
        badname == Len(LinesAbout("badname", d))
        once == IF Exempted(d) THEN 0 ELSE 1
    IN  IF base = dot_git THEN nonbare = once /\ badname = 0
        ELSE IF ProperGitName(base) THEN nonbare = 0 /\ badname = 0
        ELSE nonbare = 0 /\ badname = once

(* C2 amended: every directory check_gitree has judged got exactly one of  *)
(* three outcomes: named ".git", one non-bare warning unless its path is   *)
(* exempted; not ending in ".git", one bad-name warning whether or not its *)
(* path is exempted; ending in ".git" and longer, neither warning.  No     *)
(* directory gets both warnings, and the two counters count the lines.     *)
C2_NamingOutcomes ==
  /\ \A k \in 1..Len(check_calls) :
       LET d == check_calls[k]
           base == last_dir(d)
           nonbare == Len(LinesAbout("nonbare", d))
           badname == Len(LinesAbout("badname", d))
       IN  /\ IF base = dot_git
              THEN nonbare = (IF Exempted(d) THEN 0 ELSE 1) /\ badname = 0
              ELSE IF ProperGitName(base) THEN nonbare = 0 /\ badname = 0
              ELSE nonbare = 0 /\ badname = 1
           /\ nonbare + badname <= 1
  /\ \A n \in 1..Len(out) :
       out[n].kind \in {"nonbare", "badname"} => Called(check_calls, out[n].path)
  /\ sum_non_bare_git = CountKind(out, "nonbare")
  /\ sum_dir_name_not_with_git = CountKind(out, "badname")

C2_Witness ==
  /\ Completed
  /\ \E k \in 1..Len(check_calls) :
       /\ Exempted(check_calls[k])
       /\ ~ProperGitName(last_dir(check_calls[k]))
       /\ last_dir(check_calls[k]) # dot_git
       /\ Len(LinesAbout("badname", check_calls[k])) = 1

\* the entries of a git tree check_gitree has read so far
CheckedUpTo(v) ==
  IF stack # <<>> /\ Top.dirname = v.dirname
  THEN (IF Top.at = "check_readdir" THEN Top.pos
        ELSE IF Top.at = "check_gitree" THEN 0 ELSE Len(Listing(v.shape)))
  ELSE Len(Listing(v.shape))

ExpectedLayoutLines(v) ==
  LET read == SubSeq(Listing(v.shape), 1, CheckedUpTo(v))
      bad == SelectSeq(read, LAMBDA e : e.name \notin GitFileSet)
  IN  [j \in 1..Len(bad) |-> Line("layout", v.dirname \o <<"/">> \o bad[j].name)]

(* C3: for every directory classified as a git tree, the layout warnings   *)
(* printed for its children are exactly one per child read whose name is   *)
(* not in git_files, of any type, with the child's full path; no           *)
(* layout warning is printed elsewhere, and nothing beneath a git tree is  *)
(* opened by gitree() or check_gitree().                                   *)
C3_LayoutWarnings ==
  /\ \A k \in 1..Len(visited) :
       visited[k].root =>
         /\ LinesFor("layout", visited[k].dirname) = ExpectedLayoutLines(visited[k])
         /\ \A c \in 1..Len(gitree_calls) :
              ~Beneath(gitree_calls[c], visited[k].dirname)
         /\ \A c \in 1..Len(check_calls) :
              ~Beneath(check_calls[c], visited[k].dirname)
  /\ \A n \in 1..Len(out) :
       out[n].kind = "layout" =>
         \E k \in 1..Len(visited) :
           visited[k].root /\ visited[k].dirname = ParentOf(out[n].path)
  /\ sum_break_layout_rule = CountKind(out, "layout")

C3_Witness ==
  /\ Completed
  /\ \E k \in 1..Len(visited) :
       /\ visited[k].root
       /\ Len(LinesFor("layout", visited[k].dirname)) = 3
       /\ \E n \in 1..Len(out) :
            out[n] = Line("layout", visited[k].dirname \o <<"/">> \o n_lnk)

ExpectedStrayLines(v) ==
  LET regs == OfType(Listing(v.shape), "DT_REG")
  IN  IF Exempted(v.dirname) THEN <<>>
      ELSE [j \in 1..Len(regs) |-> Line("stray", v.dirname \o <<"/">> \o regs[j].name)]

(* C4: the stray-file warnings printed for a visited directory that is no  *)
(* git tree are exactly one per regular file of it, none when its path is  *)
(* exempted; no stray-file warning names a path beneath a git tree, and no *)
(* path has both a layout warning and a stray-file warning.                *)
C4_StrayFiles ==
  /\ \A k \in 1..Len(visited) :
       IF visited[k].root
       THEN \A n \in 1..Len(out) :
              out[n].kind = "stray" => ~Beneath(out[n].path, visited[k].dirname)
       ELSE LinesFor("stray", visited[k].dirname) = ExpectedStrayLines(visited[k])
  /\ \A n \in 1..Len(out) :
       out[n].kind = "stray" =>
         /\ \E k \in 1..Len(visited) :
              ~visited[k].root /\ visited[k].dirname = ParentOf(out[n].path)
         /\ \A m \in 1..Len(out) :
              out[m].kind = "layout" => out[m].path # out[n].path
  /\ sum_not_in_git = CountKind(out, "stray")

C4_Witness ==
  /\ Completed
  /\ \E k \in 1..Len(visited) :
       /\ ~visited[k].root
       /\ Len(LinesFor("stray", visited[k].dirname)) = 1
  /\ \E k \in 1..Len(visited) :
       /\ visited[k].root
       /\ HasEntry(Listing(visited[k].shape), n_junk, "DT_REG")

\* Scenario C: /x/work holds only .git, which holds only objects and refs
ScenarioC ==
  /\ Completed
  /\ pathname = p_x_work
  /\ Len(visited) >= 2
  /\ visited[1].dirname = p_x_work
  /\ Listing(visited[1].shape) = <<E(dot_git, "DT_DIR")>>
  /\ visited[2].dirname = p_x_work \o <<"/">> \o dot_git
  /\ Listing(visited[2].shape) = <<E(n_objects, "DT_DIR"), E(n_refs, "DT_DIR")>>
  /\ \A k \in 3..Len(visited) : Listing(visited[k].shape) = <<>>

\* the same tree with a regular file HEAD in .git
ScenarioCWithHEAD ==
  /\ Completed
  /\ pathname = p_x_work
  /\ Len(visited) >= 2
  /\ visited[1].dirname = p_x_work
  /\ Listing(visited[1].shape) = <<E(dot_git, "DT_DIR")>>
  /\ visited[2].dirname = p_x_work \o <<"/">> \o dot_git
  /\ Listing(visited[2].shape) =
       <<E(n_objects, "DT_DIR"), E(n_refs, "DT_DIR"), E(n_HEAD, "DT_REG")>>
  /\ \A k \in 3..Len(visited) : Listing(visited[k].shape) = <<>>

(* C5 as written: a walk of scenario C ends with the non-bare counter at 1. *)
C5_ScenarioCOneWarning == ScenarioC => sum_non_bare_git = 1

(* C5 amended: a walk of scenario C ends with the non-bare counter at 0    *)
(* and no non-bare warning; with a regular file HEAD added to .git it ends *)
(* with the counter at 1 and one non-bare warning, for .git.               *)
C5_ScenarioCNeedsHEAD ==
  /\ ScenarioC => sum_non_bare_git = 0 /\ CountKind(out, "nonbare") = 0
  /\ ScenarioCWithHEAD =>
       /\ sum_non_bare_git = 1
       /\ SelectSeq(out, LAMBDA l : l.kind = "nonbare")
            = <<Line("nonbare", p_x_work \o <<"/">> \o dot_git)>>

C5_Witness == ScenarioC /\ Len(visited) = 4 /\ CountKind(out, "stray") = 0

StatusOpendir == exit_code(-1)
StatusUnknown == exit_code(-2)

\* the walk stopped in the readdir loop of the innermost call, at the entry
\* it had just read
StoppedAtEntry == stack # <<>> /\ Top.at = "readdir"

(* C6 as written: a run ends in one of three ways: the summary and status  *)
(* 0; the cannot-open status, because a directory could not be opened; a   *)
(* different non-zero status, because a child has an indeterminate type.   *)
C6_ThreeEndings ==
  pc = "exited" =>
    \/ exit_status = 0 /\ Last(out).kind = "summary"
    \/ exit_status = StatusOpendir
         /\ Last(out).kind \in {"err_opendir", "err_check_opendir"}
    \/ exit_status \notin {0, StatusOpendir} /\ Last(out).kind = "err_unknown"

(* C6 amended: a run ends in one of four ways: the whole walk done, the    *)
(* summary printed with the four counts of the warnings, status 0 however  *)
(* many warnings there were; the cannot-open status as soon as a directory *)
(* cannot be opened; that same status as soon as a directory shows its     *)
(* SUBDIRNO-th subdirectory or SUBFILENO-th regular file; a different      *)
(* non-zero status as soon as a child of indeterminate type is read.  The  *)
(* fatal message is the last line printed, no summary follows it, no       *)
(* warning is printed for the directory being read, and while the run goes *)
(* on nothing fatal and no summary has been printed.                       *)
C6_FourEndings ==
  /\ pc = "exited" =>
       /\ out # <<>>
       /\ \A n \in 1..(Len(out) - 1) : out[n].kind \notin FatalKinds \cup {"summary"}
       /\ \/ /\ exit_status = 0
             /\ stack = <<>>
             /\ Last(out).kind = "summary"
             /\ Last(out).counts = <<CountKind(out, "layout"), CountKind(out, "badname"),
                                     CountKind(out, "nonbare"), CountKind(out, "stray")>>
          \/ /\ exit_status = StatusOpendir
             /\ Last(out) = Line("err_opendir", Top.dirname)
             /\ Top.at = "opendir"
          \/ /\ exit_status = StatusOpendir
             /\ Last(out) \in {Line("err_max_dir", Top.dirname),
                               Line("err_max_file", Top.dirname)}
             /\ StoppedAtEntry
             /\ Listing(Top.shape)[Top.pos].type \in {"DT_DIR", "DT_REG"}
             /\ out[Len(out) - 1] = Line("checking", Top.dirname)
          \/ /\ exit_status = StatusUnknown
             /\ exit_status \notin {0, StatusOpendir}
             /\ Last(out) = Line("err_unknown", Top.dirname)
             /\ StoppedAtEntry
             /\ Listing(Top.shape)[Top.pos + 1].type = "DT_UNKNOWN"
             /\ out[Len(out) - 1] = Line("checking", Top.dirname)
  /\ pc # "exited" =>
       /\ \A n \in 1..Len(out) : out[n].kind \notin FatalKinds \cup {"summary"}
       /\ \A k \in 1..Len(stack) :
            stack[k].at = "readdir" /\ stack[k].pos > 0 =>
              Listing(stack[k].shape)[stack[k].pos].type # "DT_UNKNOWN"

C6_Witness ==
  /\ pc = "exited"
  /\ exit_status = StatusOpendir
  /\ Last(out).kind = "err_max_file"

\* the number of entries of one type among the first n of a listing
TypeCount(l, type, n) == Len(OfType(SubSeq(l, 1, n), type))

Scanned(f) == f.at \notin {"opendir", "readdir"}

(* C9 as written: a visit stops with the capacity error exactly when the   *)
(* directory has more than N children: a directory read to the end has at  *)
(* most N children, and one that stopped the run with the capacity error   *)
(* has more than N.                                                        *)
C9_AbortIffMoreThanN ==
  /\ \A k \in 1..Len(stack) :
       Scanned(stack[k]) => Len(Listing(stack[k].shape)) <= SUBDIRNO
  /\ pc = "exited" /\ Last(out).kind \in {"err_max_dir", "err_max_file"} =>
       Len(Listing(Top.shape)) > SUBDIRNO

(* C9 amended: subdirectories and regular files are counted apart, other   *)
(* entries not at all, and a visit stops with the capacity error exactly   *)
(* when it reads the SUBDIRNO-th subdirectory or the SUBFILENO-th regular  *)
(* file: a directory read to the end has fewer than SUBDIRNO               *)
(* subdirectories and fewer than SUBFILENO regular files, all of them kept *)
(* in subdir[] and subfile[], however many children it has in all.         *)
C9_AbortWhenACountReachesN ==
  /\ \A k \in 1..Len(stack) :
       LET f == stack[k]
           l == Listing(f.shape)
       IN  /\ f.at = "readdir" /\ pc # "exited" =>
                Len(f.subdir) < SUBDIRNO /\ Len(f.subfile) < SUBFILENO
           /\ f.at = "classify" =>
                /\ Len(f.subdir) = TypeCount(l, "DT_DIR", Len(l))
                /\ Len(f.subfile) = TypeCount(l, "DT_REG", Len(l))
                /\ Len(f.subdir) < SUBDIRNO /\ Len(f.subfile) < SUBFILENO
  /\ pc = "exited" /\ Last(out).kind = "err_max_dir" =>
       /\ TypeCount(Listing(Top.shape), "DT_DIR", Top.pos) = SUBDIRNO
       /\ Listing(Top.shape)[Top.pos].type = "DT_DIR"
       /\ Len(Top.subdir) = SUBDIRNO
  /\ pc = "exited" /\ Last(out).kind = "err_max_file" =>
       /\ TypeCount(Listing(Top.shape), "DT_REG", Top.pos) = SUBFILENO
       /\ Listing(Top.shape)[Top.pos].type = "DT_REG"
       /\ Len(Top.subfile) = SUBFILENO

C9_Witness ==
  /\ Completed
  /\ Len(Listing(visited[1].shape)) > SUBDIRNO
  /\ Len(LinesFor("stray", visited[1].dirname)) = SUBFILENO - 1

(* C10 as written: at most one handle is open at any time, none while a    *)
(* call is between its listing and its return, and none once the process   *)
(* has ended, fatal exits included.                                        *)
C10_ReleasedOnEveryExit ==
  /\ Len(handles) <= 1
  /\ handles # <<>> =>
       stack # <<>> /\ Top.at \in {"readdir", "check_readdir"} /\ pc # "exited"

(* C10 amended: at most one handle is open at any time, that of the        *)
(* directory the innermost call is reading; it is closed when the listing  *)
(* has been read to the end, before any recursion and before a normal end  *)
(* of the run.  The fatal exits in the readdir loop (indeterminate type,   *)
(* capacity) end the process without closing it.                           *)
C10_ClosedBeforeRecursion ==
  /\ Len(handles) <= 1
  /\ handles # <<>> =>
       /\ stack # <<>>
       /\ Top.at \in {"readdir", "check_readdir"}
       /\ handles = <<Top.dirname>>
  /\ stack # <<>> /\ Top.at \in {"readdir", "check_readdir"} =>
       handles = <<Top.dirname>>
  /\ Completed => handles = <<>>
  /\ pc = "exited" /\ Last(out).kind \in {"err_unknown", "err_max_dir", "err_max_file"} =>
       handles = <<Top.dirname>>

C10_Witness ==
  /\ pc = "exited"
  /\ Last(out).kind = "err_unknown"
  /\ Len(stack) = 3
  /\ handles = <<Top.dirname>>

(* C8 as written: gitree() is never called on a child whose name ends in   *)
(* ".git" and is longer; such a child is handed to check_gitree instead    *)
(* and its regular files get no stray-file warning.                        *)
C8_SuffixChildCheckedDirectly ==
  /\ \A c \in 2..Len(gitree_calls) : ~ProperGitName(last_dir(gitree_calls[c]))
  /\ \A n \in 1..Len(out) :
       out[n].kind = "stray" => ~ProperGitName(last_dir(ParentOf(out[n].path)))
  /\ Completed =>
       \A k \in 1..Len(visited) :
         ~visited[k].root =>
           \A j \in 1..Len(Listing(visited[k].shape)) :
             LET e == Listing(visited[k].shape)[j]
             IN  e.type = "DT_DIR" /\ ProperGitName(e.name) =>
                   Called(check_calls, visited[k].dirname \o <<"/">> \o e.name)

(* C8 amended: gitree() is called once on every subdirectory of a visited  *)
(* directory that is no git tree, whatever its name, and check_gitree only *)
(* on a directory whose own listing gitree() has read and found to hold    *)
(* objects, refs and HEAD.  A child whose name ends in ".git" and is       *)
(* longer, and that lacks them, is walked like any other: its regular      *)
(* files get stray-file warnings unless its path is exempted.              *)
C8_EveryChildWalked ==
  /\ \A c \in 1..Len(check_calls) :
       \E k \in 1..Len(visited) :
         /\ visited[k].dirname = check_calls[c]
         /\ visited[k].root
         /\ HasSignature(Listing(visited[k].shape))
  /\ Completed =>
       \A k \in 1..Len(visited) :
         ~visited[k].root =>
           /\ \A j \in 1..Len(Listing(visited[k].shape)) :
                LET e == Listing(visited[k].shape)[j]
                IN  e.type = "DT_DIR" =>
                      TimesCalled(gitree_calls, visited[k].dirname \o <<"/">> \o e.name) = 1
           /\ ProperGitName(last_dir(visited[k].dirname)) =>
                LinesFor("stray", visited[k].dirname) = ExpectedStrayLines(visited[k])

C8_Witness ==
  /\ Completed
  /\ \E k \in 1..Len(visited) :
       /\ ~visited[k].root
       /\ ProperGitName(last_dir(visited[k].dirname))
       /\ HasEntry(Listing(visited[k].shape), dot_git, "DT_DIR")
       /\ Called(gitree_calls, visited[k].dirname \o <<"/">> \o dot_git)
       /\ Len(LinesFor("stray", visited[k].dirname)) = 1

(* C7 as written, for V1 in mode -3: no regular file is printed as lying   *)
(* outside a git tree when its directory holds the directories objects and *)
(* refs.                                                                   *)
C7_NoFileOfTreePrinted ==
  stage = 3 =>
    \A k \in 1..Len(visited) :
      HasMarkers(Listing(visited[k].shape)) =>
        LinesFor("file", visited[k].dirname) = <<>>
====
